---- MODULE Spec2Model ----
(***************************************************************************)
(* Model of cupy/cublas.py: the dispatch layer over the cuBLAS routines.   *)
(* Every public function is one action; its body is an operator that       *)
(* follows the statements of the function in order and yields a record     *)
(* describing what the call did (exception, native routines invoked, the   *)
(* handle's pointer mode at the native call and on exit, what it returned). *)
(***************************************************************************)
EXTENDS Integers, Sequences, FiniteSets, TLC

\* ---------------------------------------------------------------- bounds
MaxSize == 2
MaxDim == 2
SmallLimit == 1

\* ------------------------------------------------------------- constants
DefaultLimit == 256

HOST == "HOST"
DEVICE == "DEVICE"
PointerModes == {HOST, DEVICE}

\* dtype characters: e float16, f float32, d float64, F complex64,
\* D complex128, i int32, g longdouble
DTypes == {"f", "d", "F", "D", "i"}
OutDTypes == {"f", "d", "F", "i"}
GesvDTypes == {"e", "f", "d", "F", "D", "i", "g"}

VARIABLES ptrMode, limit, last, mode0, lastSet

vars == <<ptrMode, limit, last, mode0, lastSet>>

\* ------------------------------------------------------------ input sets
\* A vector argument: number of dimensions, number of elements, dtype.
Vectors ==
    {v \in [ndim : 0..2, size : 1..MaxSize, dtype : DTypes] :
        v.ndim = 0 => v.size = 1}

\* The out argument: None, a cupy array, a numpy array, or anything else.
Outs ==
    {[kind |-> "None", dtype |-> "-"], [kind |-> "other", dtype |-> "-"]}
    \cup [kind : {"cupy", "numpy"}, dtype : OutDTypes]

\* The scalar argument a of axpy and scal.
Scalars ==
    [kind : {"cupy", "numpy"}, dtype : {"f", "d"}]
    \cup {[kind |-> "python", dtype |-> "-"]}

NoVec == [ndim |-> 0, size |-> 1, dtype |-> "-"]
NoOut == [kind |-> "None", dtype |-> "-"]
NoScalar == [kind |-> "python", dtype |-> "-"]
NoArr == [buf |-> "-", shape |-> <<>>, strides |-> <<>>, dtype |-> "-"]

\* What a call that has not happened looks like.
NoCall ==
    [op |-> "none", x |-> NoVec, y |-> NoVec, out |-> NoOut, a |-> NoScalar,
     env |-> "ok",
     exc |-> "none", routines |-> <<>>,
     modeBefore |-> "-", modeAtCall |-> "-", modeAfter |-> "-",
     modeRead |-> FALSE, modeWritten |-> FALSE,
     ptrLoc |-> "-", ret |-> "-", retKind |-> "-", retDtype |-> "-",
     outVal |-> "old", outCastFrom |-> "-", modeAtCopy |-> "-",
     modified |-> {},
     ga |-> NoArr, gb |-> NoArr, lim |-> 0, warned |-> FALSE,
     retShape |-> <<>>, bs |-> 0, n |-> 0, nrhs |-> 0,
     workA |-> "-", workB |-> "-", written |-> {}, value |-> 0]

Rec(r) == r @@ NoCall

\* --------------------------------------------------- pointer-mode helpers

\* cublas.setPointerMode(handle, orig_mode) after the native call
restore_mode_skipped(cur, orig) == cur

restore_mode(cur, orig) == orig

\* _setup_result_ptr(handle, out, dtype)
setup_result_ptr_always_device(mode, out, dtype) ==
    IF out.kind \in {"None", "cupy", "numpy"}
    THEN [exc |-> "none", orig |-> mode, mode |-> DEVICE,
          loc |-> IF out.kind = "numpy" THEN "host" ELSE "device",
          result |-> IF out.kind = "None" \/ out.dtype # dtype
                     THEN "temp" ELSE "out"]
    ELSE [exc |-> "TypeError", orig |-> mode, mode |-> mode,
          loc |-> "-", result |-> "-"]

setup_result_ptr(mode, out, dtype) ==
    IF out.kind = "None" \/ out.kind = "cupy"
    THEN [exc |-> "none", orig |-> mode, mode |-> DEVICE, loc |-> "device",
          result |-> IF out.kind = "None" \/ out.dtype # dtype
                     THEN "temp" ELSE "out"]
    ELSE IF out.kind = "numpy"
    THEN [exc |-> "none", orig |-> mode, mode |-> HOST, loc |-> "host",
          result |-> IF out.dtype # dtype THEN "temp" ELSE "out"]
    ELSE [exc |-> "TypeError", orig |-> mode, mode |-> mode,
          loc |-> "-", result |-> "-"]

\* _setup_scalar_ptr(handle, a, dtype); numpy.array(a, dtype=dtype) may
\* raise (env = "scalar_fails") before the mode is written.
setup_scalar_ptr(mode, a, dtype, env) ==
    IF a.kind = "cupy"
    THEN [exc |-> "none", orig |-> mode, mode |-> DEVICE, loc |-> "device"]
    ELSE IF ~(a.kind = "numpy" /\ a.dtype = dtype) /\ env = "scalar_fails"
    THEN [exc |-> "TypeError", orig |-> mode, mode |-> mode, loc |-> "-"]
    ELSE [exc |-> "none", orig |-> mode, mode |-> HOST, loc |-> "host"]

\* ------------------------------------------------------ dtype dispatch

\* The if/elif chain on dtype: 'f' -> 's', 'd' -> 'd', 'F' -> 'c', 'D' -> 'z'
type_letter_swapped(dtype) ==
    CASE dtype = "f" -> "s"
      [] dtype = "d" -> "d"
      [] dtype = "F" -> "z"
      [] dtype = "D" -> "c"
      [] OTHER -> "invalid"

type_letter(dtype) ==
    CASE dtype = "f" -> "s"
      [] dtype = "d" -> "d"
      [] dtype = "F" -> "c"
      [] dtype = "D" -> "z"
      [] OTHER -> "invalid"

\* str.lower() on a dtype character (result dtype of asum and nrm2)
lower(dtype) ==
    CASE dtype = "F" -> "f"
      [] dtype = "D" -> "d"
      [] OTHER -> dtype

\* asum's function table
asum_func(dtype) ==
    CASE dtype = "f" -> "sasum"
      [] dtype = "d" -> "dasum"
      [] dtype = "F" -> "scasum"
      [] dtype = "D" -> "dzasum"
      [] OTHER -> "invalid"

\* nrm2's function table
nrm2_func(dtype) ==
    CASE dtype = "f" -> "snrm2"
      [] dtype = "d" -> "dnrm2"
      [] dtype = "F" -> "scnrm2"
      [] dtype = "D" -> "dznrm2"
      [] OTHER -> "invalid"

\* ------------------------------------------------------------ validation

\* _check_two_vectors(x, y): the exception it raises, or "none"
check_two_vectors_no_size(x, y) ==
    IF x.ndim # 1 THEN "ValueError"
    ELSE IF y.ndim # 1 THEN "ValueError"
    ELSE IF x.dtype # y.dtype THEN "TypeError"
    ELSE "none"

check_two_vectors(x, y) ==
    IF x.ndim # 1 THEN "ValueError"
    ELSE IF y.ndim # 1 THEN "ValueError"
    ELSE IF x.size # y.size THEN "ValueError"
    ELSE IF x.dtype # y.dtype THEN "TypeError"
    ELSE "none"

\* A call that raised before the handle was fetched.
Raised(exc, mode) ==
    Rec([exc |-> exc, modeBefore |-> mode, modeAfter |-> mode])

\* ------------------------------------------- the tail of every operation

\* elif out.dtype != result_dtype: out[...] = result
needs_copy_never(out, result_dtype) == FALSE

needs_copy(out, result_dtype) == out.dtype # result_dtype

\* handle = device.get_cublas_handle() ... return out, as written at the end
\* of _iamaxmin, asum, dot, dotu, dotc and nrm2.  env says whether the native
\* routine raises and whether the assignment out[...] = result raises.
call_with_result(func, out, result_dtype, mode, env) ==
    LET s == setup_result_ptr(mode, out, result_dtype) IN
    IF s.exc # "none"
    THEN Rec([exc |-> s.exc, modeBefore |-> mode, modeAfter |-> mode,
              modeRead |-> TRUE])
    ELSE IF env = "native_fails"
    THEN Rec([exc |-> "CUBLASError", routines |-> <<func>>,
              modeBefore |-> mode, modeAtCall |-> s.mode,
              modeAfter |-> s.mode, modeRead |-> TRUE, modeWritten |-> TRUE,
              ptrLoc |-> s.loc])
    ELSE
    LET m == restore_mode(s.mode, s.orig)
        called == [routines |-> <<func>>, modeBefore |-> mode,
                   modeAtCall |-> s.mode, modeAfter |-> m,
                   modeRead |-> TRUE, modeWritten |-> TRUE, ptrLoc |-> s.loc]
        direct == IF s.result = "out" THEN "result" ELSE "old"
    IN  IF out.kind = "None"
        THEN Rec([ret |-> "fresh", retKind |-> "cupy",
                  retDtype |-> result_dtype] @@ called)
        ELSE IF needs_copy(out, result_dtype)
        THEN IF env = "copy_fails"
             THEN Rec([exc |-> "CopyError", outVal |-> direct,
                       modeAtCopy |-> m,
                       modified |-> IF direct = "result" THEN {"out"} ELSE {}]
                      @@ called)
             ELSE Rec([ret |-> "out", retKind |-> out.kind,
                       retDtype |-> out.dtype, outVal |-> "result",
                       outCastFrom |-> result_dtype, modeAtCopy |-> m,
                       modified |-> {"out"}] @@ called)
        ELSE Rec([ret |-> "out", retKind |-> out.kind,
                  retDtype |-> out.dtype, outVal |-> direct,
                  modified |-> IF direct = "result" THEN {"out"} ELSE {}]
                 @@ called)

\* handle = device.get_cublas_handle() ... setPointerMode(handle, orig_mode),
\* as written at the end of axpy and scal; target is the array the native
\* routine updates in place.
call_with_scalar(func, a, dtype, target, mode, env) ==
    LET s == setup_scalar_ptr(mode, a, dtype, env) IN
    IF s.exc # "none"
    THEN Rec([exc |-> s.exc, modeBefore |-> mode, modeAfter |-> mode,
              modeRead |-> TRUE])
    ELSE IF env = "native_fails"
    THEN Rec([exc |-> "CUBLASError", routines |-> <<func>>,
              modeBefore |-> mode, modeAtCall |-> s.mode,
              modeAfter |-> s.mode, modeRead |-> TRUE, modeWritten |-> TRUE,
              ptrLoc |-> s.loc])
    ELSE Rec([routines |-> <<func>>, modeBefore |-> mode,
              modeAtCall |-> s.mode,
              modeAfter |-> restore_mode(s.mode, s.orig),
              modeRead |-> TRUE, modeWritten |-> TRUE, ptrLoc |-> s.loc,
              ret |-> "None", modified |-> {target}])

\* ------------------------------------------------------- the operations

\* _iamaxmin(x, out, name)
iamaxmin(x, out, name, mode, env) ==
    IF x.ndim # 1 THEN Raised("ValueError", mode)
    ELSE LET t == type_letter(x.dtype) IN
         IF t = "invalid" THEN Raised("TypeError", mode)
         ELSE call_with_result("i" \o t \o name, out, "i", mode, env)

\* asum(x, out=None)
asum(x, out, mode, env) ==
    IF x.ndim # 1 THEN Raised("ValueError", mode)
    ELSE LET func == asum_func(x.dtype) IN
         IF func = "invalid" THEN Raised("TypeError", mode)
         ELSE call_with_result(func, out, lower(x.dtype), mode, env)

\* nrm2(x, out=None)
nrm2(x, out, mode, env) ==
    IF x.ndim # 1 THEN Raised("ValueError", mode)
    ELSE LET func == nrm2_func(x.dtype) IN
         IF func = "invalid" THEN Raised("TypeError", mode)
         ELSE call_with_result(func, out, lower(x.dtype), mode, env)

\* axpy(a, x, y)
axpy(a, x, y, mode, env) ==
    LET v == check_two_vectors(x, y) IN
    IF v # "none" THEN Raised(v, mode)
    ELSE LET t == type_letter(x.dtype) IN
         IF t = "invalid" THEN Raised("TypeError", mode)
         ELSE call_with_scalar(t \o "axpy", a, x.dtype, "y", mode, env)

\* scal(a, x)
scal(a, x, mode, env) ==
    IF x.ndim # 1 THEN Raised("ValueError", mode)
    ELSE LET t == type_letter(x.dtype) IN
         IF t = "invalid" THEN Raised("TypeError", mode)
         ELSE call_with_scalar(t \o "scal", a, x.dtype, "x", mode, env)

\* dot(x, y, out=None)
dot_accepts_complex(x, y, out, mode, env) ==
    IF x.dtype \notin {"f", "d", "F", "D"} THEN Raised("TypeError", mode)
    ELSE LET v == check_two_vectors(x, y) IN
         IF v # "none" THEN Raised(v, mode)
         ELSE call_with_result(type_letter(x.dtype) \o "dot", out, x.dtype,
                               mode, env)

dot(x, y, out, mode, env) ==
    IF x.dtype \notin {"f", "d"} THEN Raised("TypeError", mode)
    ELSE LET v == check_two_vectors(x, y) IN
         IF v # "none" THEN Raised(v, mode)
         ELSE call_with_result(type_letter(x.dtype) \o "dot", out, x.dtype,
                               mode, env)

\* dotu(x, y, out=None)
dotu(x, y, out, mode, env) ==
    IF x.dtype \in {"f", "d"} THEN dot(x, y, out, mode, env)
    ELSE IF x.dtype \notin {"F", "D"} THEN Raised("TypeError", mode)
    ELSE LET v == check_two_vectors(x, y) IN
         IF v # "none" THEN Raised(v, mode)
         ELSE call_with_result(type_letter(x.dtype) \o "dotu", out, x.dtype,
                               mode, env)

\* dotc(x, y, out=None)
dotc(x, y, out, mode, env) ==
    IF x.dtype \in {"f", "d"} THEN dot(x, y, out, mode, env)
    ELSE IF x.dtype \notin {"F", "D"} THEN Raised("TypeError", mode)
    ELSE LET v == check_two_vectors(x, y) IN
         IF v # "none" THEN Raised(v, mode)
         ELSE call_with_result(type_letter(x.dtype) \o "dotc", out, x.dtype,
                               mode, env)


\* ------------------------------------------------- array metadata (gesv)
\* An array is [buf, shape, strides, dtype]: the buffer its data pointer
\* points into, its shape, its strides in elements, its dtype character.

RECURSIVE Prod(_)
Prod(s) == IF s = <<>> THEN 1 ELSE Head(s) * Prod(Tail(s))

Min(i, j) == IF i < j THEN i ELSE j

\* seq[:k] of Python
Prefix(s, k) == SubSeq(s, 1, Min(k, Len(s)))

\* Strides of a C-contiguous array of this shape.
CStrides(shape) ==
    [i \in 1..Len(shape) |-> Prod(SubSeq(shape, i + 1, Len(shape)))]

\* The c_contiguous flag: axes of extent 1 do not count.
RECURSIVE ContigFrom(_, _, _, _)
ContigFrom(shape, strides, i, acc) ==
    IF i = 0 THEN TRUE
    ELSE IF shape[i] = 1 THEN ContigFrom(shape, strides, i - 1, acc)
    ELSE strides[i] = acc
         /\ ContigFrom(shape, strides, i - 1, acc * shape[i])

IsCContiguous(arr) == ContigFrom(arr.shape, arr.strides, Len(arr.shape), 1)

\* Indices of the axes whose extent is not 1, in order.
RECURSIVE NonUnitFrom(_, _)
NonUnitFrom(shape, i) ==
    IF i > Len(shape) THEN <<>>
    ELSE (IF shape[i] # 1 THEN <<i>> ELSE <<>>) \o NonUnitFrom(shape, i + 1)

NonUnit(shape) == NonUnitFrom(shape, 1)

Extents(shape, idx) == [j \in 1..Len(idx) |-> shape[idx[j]]]

\* Position of axis i among the non-unit axes idx.
Rank(idx, i) == CHOOSE j \in 1..Len(idx) : idx[j] = i

\* ndarray.reshape(shape) raises ValueError unless the sizes agree.
can_reshape(arr, shape) == Prod(arr.shape) = Prod(shape)

\* ndarray.reshape(shape): a view when only axes of extent 1 are added or
\* removed or when the array is C-contiguous, a copy into the buffer named
\* fresh otherwise.
reshape(arr, shape, fresh) ==
    LET src == NonUnit(arr.shape)
        dst == NonUnit(shape)
    IN  IF Extents(arr.shape, src) = Extents(shape, dst)
        THEN [arr EXCEPT !.shape = shape,
                         !.strides =
                             [i \in 1..Len(shape) |->
                                 IF shape[i] = 1 THEN CStrides(shape)[i]
                                 ELSE arr.strides[src[Rank(dst, i)]]]]
        ELSE IF IsCContiguous(arr)
        THEN [arr EXCEPT !.shape = shape, !.strides = CStrides(shape)]
        ELSE [buf |-> fresh, shape |-> shape, strides |-> CStrides(shape),
              dtype |-> arr.dtype]

\* ndarray.transpose(0, 2, 1) of a 3-D array
transpose021(arr) ==
    [arr EXCEPT !.shape = <<arr.shape[1], arr.shape[3], arr.shape[2]>>,
                !.strides = <<arr.strides[1], arr.strides[3], arr.strides[2]>>]

\* cupy.ascontiguousarray(arr, dtype=dtype): arr itself when it already is
\* C-contiguous and of that dtype, a converted copy in buffer fresh otherwise
ascontiguousarray(arr, dtype, fresh) ==
    IF arr.dtype = dtype /\ IsCContiguous(arr) THEN arr
    ELSE [buf |-> fresh, shape |-> arr.shape, strides |-> CStrides(arr.shape),
          dtype |-> dtype]

\* ndarray.copy()
copy(arr, fresh) ==
    [buf |-> fresh, shape |-> arr.shape, strides |-> CStrides(arr.shape),
     dtype |-> arr.dtype]

\* numpy.promote_types(char, 'f')
promote_with_float32(c) ==
    CASE c \in {"e", "f"} -> "f"
      [] c \in {"d", "i"} -> "d"
      [] OTHER -> c

\* Input arrays of batched_gesv: layout "C" is a C-contiguous array, "T" is
\* c.swapaxes(-1, -2) of a C-contiguous array c.
SwapLast(s) ==
    IF Len(s) < 2 THEN s
    ELSE SubSeq(s, 1, Len(s) - 2) \o <<s[Len(s)], s[Len(s) - 1]>>

InputArray(buf, shape, layout, dtype) ==
    [buf |-> buf, shape |-> shape,
     strides |-> IF layout = "C" THEN CStrides(shape)
                 ELSE SwapLast(CStrides(SwapLast(shape))),
     dtype |-> dtype]

Shapes(k) == [1..k -> 1..MaxDim]

GesvA ==
    {InputArray("a", sh, l, d) :
        sh \in Shapes(2) \cup Shapes(3), l \in {"C", "T"}, d \in GesvDTypes}

GesvB ==
    {InputArray("b", sh, l, d) :
        sh \in Shapes(1) \cup Shapes(2) \cup Shapes(3), l \in {"C", "T"},
        d \in {"f", "D"}}

GesvEnvs == {"ok", "getrf_raises", "getrf_info", "getrs_raises", "getrs_info"}

\* ----------------------------------------------------------- batched_gesv

\* _util._assert_nd_squareness(a): the exception it raises, or "none"
assert_nd_squareness(a) ==
    IF Len(a.shape) < 2 \/ a.shape[Len(a.shape)] # a.shape[Len(a.shape) - 1]
    THEN "ValueError" ELSE "none"

\* The shape test of lines 41-42.
shapes_match_no_prefix(a, b) ==
    Len(a.shape) = Len(b.shape) \/ Len(a.shape) = Len(b.shape) + 1

shapes_match(a, b) ==
    /\ (Len(a.shape) = Len(b.shape) \/ Len(a.shape) = Len(b.shape) + 1)
    /\ Prefix(a.shape, Len(a.shape) - 1) = Prefix(b.shape, Len(a.shape) - 1)

\* if n > get_batched_gesv_limit(): warnings.warn(...)
exceeds_limit_or_equal(n, lim) == n >= lim

exceeds_limit(n, lim) == n > lim

\* if a.data.ptr == a_data_ptr: a = a.copy()
copy_if_aliased_missing(work, ptr, fresh) == work

copy_if_aliased(work, ptr, fresh) ==
    IF work.buf = ptr THEN copy(work, fresh) ELSE work

\* nrhs = b.shape[-1] if a.ndim == b.ndim else 1
nrhs_of(a, b) ==
    IF Len(a.shape) = Len(b.shape) THEN b.shape[Len(b.shape)] ELSE 1

\* bs = numpy.prod(a.shape[:-2]) if a.ndim > 2 else 1
bs_of(a) ==
    IF Len(a.shape) > 2 THEN Prod(SubSeq(a.shape, 1, Len(a.shape) - 2))
    ELSE 1

\* batched_gesv(a, b) under the limit lim; env says which native step fails.
batched_gesv(a, b, lim, env) ==
    LET in == [ga |-> a, gb |-> b, lim |-> lim, env |-> env] IN
    IF assert_nd_squareness(a) # "none"
    THEN Rec([exc |-> assert_nd_squareness(a)] @@ in)
    ELSE IF ~shapes_match(a, b) THEN Rec([exc |-> "ValueError"] @@ in)
    ELSE
    LET dtype == promote_with_float32(a.dtype)
        t == type_letter(dtype)
    IN
    IF t = "invalid" THEN Rec([exc |-> "TypeError"] @@ in)
    ELSE
    LET getrf == t \o "getrfBatched"
        getrs == t \o "getrsBatched"
        bs == bs_of(a)
        n == a.shape[Len(a.shape)]
        nrhs == nrhs_of(a, b)
        ra == reshape(a, <<bs, n, n>>, "a_reshaped")
        rb == reshape(b, <<bs, n, nrhs>>, "b_reshaped")
    IN
    IF ~can_reshape(a, <<bs, n, n>>) \/ ~can_reshape(b, <<bs, n, nrhs>>)
    THEN Rec([exc |-> "ValueError", bs |-> bs, n |-> n, nrhs |-> nrhs] @@ in)
    ELSE
    LET wa == copy_if_aliased(
                  ascontiguousarray(transpose021(ra), dtype, "a_contiguous"),
                  a.buf, "a_copy")
        wb == copy_if_aliased(
                  ascontiguousarray(transpose021(rb), dtype, "b_contiguous"),
                  b.buf, "b_copy")
        warned == exceeds_limit(n, lim)
        sofar == [bs |-> bs, n |-> n, nrhs |-> nrhs, warned |-> warned,
                  workA |-> wa.buf, workB |-> wb.buf] @@ in
        back == reshape(transpose021(wb), b.shape, "ret_reshaped")
    IN
    IF env = "getrf_raises"
    THEN Rec([exc |-> "CUBLASError", routines |-> <<getrf>>,
              written |-> {wa.buf}] @@ sofar)
    ELSE IF env = "getrf_info"
    THEN Rec([exc |-> "LinAlgError", routines |-> <<getrf>>,
              written |-> {wa.buf}] @@ sofar)
    ELSE IF env = "getrs_raises"
    THEN Rec([exc |-> "CUBLASError", routines |-> <<getrf, getrs>>,
              written |-> {wa.buf, wb.buf}] @@ sofar)
    ELSE IF env = "getrs_info"
    THEN Rec([exc |-> "LinAlgError", routines |-> <<getrf, getrs>>,
              written |-> {wa.buf, wb.buf}] @@ sofar)
    ELSE IF ~can_reshape(transpose021(wb), b.shape)
    THEN Rec([exc |-> "ValueError", routines |-> <<getrf, getrs>>,
              written |-> {wa.buf, wb.buf}] @@ sofar)
    ELSE Rec([routines |-> <<getrf, getrs>>, written |-> {wa.buf, wb.buf},
              ret |-> "fresh", retKind |-> "cupy", retDtype |-> dtype,
              retShape |-> back.shape] @@ sofar)

\* ---------------------------------------------------------------- actions

VecEnvs == {"ok", "native_fails", "copy_fails"}
ScalarEnvs == {"ok", "native_fails", "scalar_fails"}
Limits == {SmallLimit, DefaultLimit}

Init ==
    /\ ptrMode \in PointerModes
    /\ mode0 = ptrMode
    /\ limit = DefaultLimit
    /\ lastSet = <<>>
    /\ last = NoCall

\* No call is in progress and the previous call's results were dropped.
Idle == last.op = "none"

\* The record of a vector operation with its arguments filled in.
Recorded(op, r, x, y, out, a, env) ==
    [r EXCEPT !.op = op, !.x = x, !.y = y, !.out = out, !.a = a, !.env = env]

\* A vector operation: the handle's mode becomes what the call left.
Perform(op, r, x, y, out, a, env) ==
    /\ last' = Recorded(op, r, x, y, out, a, env)
    /\ ptrMode' = r.modeAfter
    /\ UNCHANGED <<limit, mode0, lastSet>>

Iamax ==
    /\ Idle
    /\ \E x \in Vectors, out \in Outs, env \in VecEnvs :
        Perform("iamax", iamaxmin(x, out, "amax", ptrMode, env),
                x, NoVec, out, NoScalar, env)

Iamin ==
    /\ Idle
    /\ \E x \in Vectors, out \in Outs, env \in VecEnvs :
        Perform("iamin", iamaxmin(x, out, "amin", ptrMode, env),
                x, NoVec, out, NoScalar, env)

Asum ==
    /\ Idle
    /\ \E x \in Vectors, out \in Outs, env \in VecEnvs :
        Perform("asum", asum(x, out, ptrMode, env),
                x, NoVec, out, NoScalar, env)

Nrm2 ==
    /\ Idle
    /\ \E x \in Vectors, out \in Outs, env \in VecEnvs :
        Perform("nrm2", nrm2(x, out, ptrMode, env),
                x, NoVec, out, NoScalar, env)

Axpy ==
    /\ Idle
    /\ \E a \in Scalars, x \in Vectors, y \in Vectors, env \in ScalarEnvs :
        Perform("axpy", axpy(a, x, y, ptrMode, env), x, y, NoOut, a, env)

Scal ==
    /\ Idle
    /\ \E a \in Scalars, x \in Vectors, env \in ScalarEnvs :
        Perform("scal", scal(a, x, ptrMode, env), x, NoVec, NoOut, a, env)

Dot ==
    /\ Idle
    /\ \E x \in Vectors, y \in Vectors, out \in Outs, env \in VecEnvs :
        Perform("dot", dot(x, y, out, ptrMode, env), x, y, out, NoScalar, env)

Dotu ==
    /\ Idle
    /\ \E x \in Vectors, y \in Vectors, out \in Outs, env \in VecEnvs :
        Perform("dotu", dotu(x, y, out, ptrMode, env),
                x, y, out, NoScalar, env)

Dotc ==
    /\ Idle
    /\ \E x \in Vectors, y \in Vectors, out \in Outs, env \in VecEnvs :
        Perform("dotc", dotc(x, y, out, ptrMode, env),
                x, y, out, NoScalar, env)

\* get_batched_gesv_limit()
get_batched_gesv_limit(lim) == lim

GetBatchedGesvLimit ==
    /\ Idle
    /\ last' = Rec([op |-> "get_batched_gesv_limit",
                    value |-> get_batched_gesv_limit(limit)])
    /\ UNCHANGED <<ptrMode, limit, mode0, lastSet>>

\* set_batched_gesv_limit(limit)
set_batched_gesv_limit(old, new) == new

SetBatchedGesvLimit ==
    /\ Idle
    /\ \E l \in Limits :
        /\ limit' = set_batched_gesv_limit(limit, l)
        /\ lastSet' = <<l>>
        /\ last' = Rec([op |-> "set_batched_gesv_limit", value |-> l])
        /\ UNCHANGED <<ptrMode, mode0>>

BatchedGesv ==
    /\ Idle
    /\ \E a \in GesvA, b \in GesvB, env \in GesvEnvs :
        /\ last' = [batched_gesv(a, b, limit, env)
                        EXCEPT !.op = "batched_gesv"]
        /\ UNCHANGED <<ptrMode, limit, mode0, lastSet>>

\* The caller drops the previous call's results before its next call.
Discard ==
    /\ last.op # "none"
    /\ last' = NoCall
    /\ UNCHANGED <<ptrMode, limit, mode0, lastSet>>

Next ==
    \/ Iamax \/ Iamin \/ Asum \/ Nrm2 \/ Axpy \/ Scal
    \/ Dot \/ Dotu \/ Dotc
    \/ GetBatchedGesvLimit \/ SetBatchedGesvLimit \/ BatchedGesv
    \/ Discard

Spec == Init /\ [][Next]_vars

\* ================================================================ claims

VecOps ==
    {"iamax", "iamin", "asum", "axpy", "dot", "dotu", "dotc", "nrm2", "scal"}
ResultOps == {"iamax", "iamin", "asum", "dot", "dotu", "dotc", "nrm2"}
ScalarOps == {"axpy", "scal"}
TwoVectorOps == {"axpy", "dot", "dotu", "dotc"}
DotOps == {"dot", "dotu", "dotc"}
Real == {"f", "d"}
Complex == {"F", "D"}

\* C1: when iamax, iamin, asum, axpy, dot, dotu, dotc, nrm2 or scal returns
\* normally, the handle's pointer mode is the mode it had just before the
\* call, whatever that was and wherever the scalar or result lived.
C1_ModeRestoredOnReturn ==
    (last.op \in VecOps /\ last.exc = "none") => ptrMode = last.modeBefore

C1_Witness ==
    /\ last.op = "scal" /\ last.exc = "none"
    /\ last.modeBefore = DEVICE /\ last.modeAtCall = HOST
    /\ ptrMode = DEVICE

\* C2: when the native routine is invoked the handle's mode matches where
\* the pointer handed to it lives: DEVICE for out None or a cupy out, HOST
\* for a numpy out; DEVICE for a cupy scalar a, HOST for any other a.
C2_ModeMatchesPointer ==
    (last.op \in VecOps /\ last.routines # <<>>) =>
        /\ last.op \in ResultOps =>
              last.modeAtCall = (IF last.out.kind \in {"None", "cupy"}
                                 THEN DEVICE ELSE HOST)
        /\ last.op \in ScalarOps =>
              last.modeAtCall = (IF last.a.kind = "cupy"
                                 THEN DEVICE ELSE HOST)
        /\ last.modeAtCall = (IF last.ptrLoc = "device" THEN DEVICE ELSE HOST)
        /\ last.ptrLoc \in {"device", "host"}

C2_Witness ==
    /\ last.op = "dot" /\ last.routines = <<"ddot">>
    /\ last.out.kind = "numpy"
    /\ last.modeBefore = DEVICE /\ last.modeAtCall = HOST

\* The routine family letter the claims name for each supported dtype.
VariantLetter(d) ==
    CASE d = "f" -> "s" [] d = "d" -> "d" [] d = "F" -> "c" [] d = "D" -> "z"
      [] OTHER -> "?"

\* The native routines the claims name for an operation on dtype d.
ExpectedRoutines(op, d) ==
    CASE op = "iamax" -> <<"i" \o VariantLetter(d) \o "amax">>
      [] op = "iamin" -> <<"i" \o VariantLetter(d) \o "amin">>
      [] op = "asum" ->
            <<CASE d = "f" -> "sasum" [] d = "d" -> "dasum"
                [] d = "F" -> "scasum" [] d = "D" -> "dzasum" [] OTHER -> "?">>
      [] op = "nrm2" ->
            <<CASE d = "f" -> "snrm2" [] d = "d" -> "dnrm2"
                [] d = "F" -> "scnrm2" [] d = "D" -> "dznrm2" [] OTHER -> "?">>
      [] op = "axpy" -> <<VariantLetter(d) \o "axpy">>
      [] op = "scal" -> <<VariantLetter(d) \o "scal">>
      [] op = "dot" -> <<VariantLetter(d) \o "dot">>
      [] op = "dotu" ->
            <<VariantLetter(d) \o (IF d \in Real THEN "dot" ELSE "dotu")>>
      [] op = "dotc" ->
            <<VariantLetter(d) \o (IF d \in Real THEN "dot" ELSE "dotc")>>
      [] op = "batched_gesv" ->
            <<VariantLetter(d) \o "getrfBatched",
              VariantLetter(d) \o "getrsBatched">>
      [] OTHER -> <<>>

\* The dtype an operation dispatches on: x's, or a's promoted with float32.
DispatchDtype ==
    IF last.op = "batched_gesv" THEN promote_with_float32(last.ga.dtype)
    ELSE last.x.dtype

\* a is square in its last two dimensions and b's shape fits a's.
GesvAccepts(a, b) ==
    LET na == Len(a.shape)
        nb == Len(b.shape)
    IN  /\ na >= 2
        /\ a.shape[na] = a.shape[na - 1]
        /\ (na = nb \/ na = nb + 1)
        /\ \A i \in 1..(na - 1) : a.shape[i] = b.shape[i]

\* Everything but the dtype is in order, and nothing fails underneath.
OtherwiseValid ==
    /\ last.env = "ok"
    /\ last.op \in VecOps => last.x.ndim = 1
    /\ last.op \in TwoVectorOps =>
          /\ last.y.ndim = 1
          /\ last.y.size = last.x.size
          /\ last.y.dtype = last.x.dtype
    /\ last.op \in ResultOps => last.out.kind # "other"
    /\ last.op = "batched_gesv" => GesvAccepts(last.ga, last.gb)

\* The shape checks that run before the dtype dispatch fail.
ShapeCheckedFirstFails ==
    \/ last.op \in {"iamax", "iamin", "asum", "nrm2", "scal"}
       /\ last.x.ndim # 1
    \/ last.op = "axpy"
       /\ (last.x.ndim # 1 \/ last.y.ndim # 1 \/ last.x.size # last.y.size)
    \/ last.op = "batched_gesv" /\ ~GesvAccepts(last.ga, last.gb)

AllOps == VecOps \cup {"batched_gesv"}
Supported == {"f", "d", "F", "D"}

\* C3 as stated: every operation maps float32/float64/complex64/complex128
\* to the s/d/c/z routine, and any other dtype raises TypeError with no
\* native call (read for calls whose earlier shape checks pass).
C3_Original ==
    last.op \in AllOps =>
        /\ (DispatchDtype \in Supported /\ OtherwiseValid) =>
              last.routines = ExpectedRoutines(last.op, DispatchDtype)
        /\ (DispatchDtype \notin Supported /\ ~ShapeCheckedFirstFails) =>
              (last.exc = "TypeError" /\ last.routines = <<>>)

SupportedBy(op) == IF op = "dot" THEN Real ELSE Supported

\* C3, amended: every operation except dot maps the four dtypes to the
\* s/d/c/z routine; dot does so for float32 and float64 only and raises
\* TypeError for complex input.  A native routine is only ever invoked for a
\* supported dtype and is that dtype's variant.  For an unsupported dtype no
\* native routine is invoked and the call raises TypeError, unless a shape
\* check that runs before the dispatch already raised ValueError.
C3_RoutineByDtype ==
    last.op \in AllOps =>
        /\ (DispatchDtype \in SupportedBy(last.op) /\ OtherwiseValid) =>
              last.routines = ExpectedRoutines(last.op, DispatchDtype)
        /\ last.routines # <<>> =>
              /\ DispatchDtype \in SupportedBy(last.op)
              /\ \E k \in 1..Len(ExpectedRoutines(last.op, DispatchDtype)) :
                    last.routines =
                        SubSeq(ExpectedRoutines(last.op, DispatchDtype), 1, k)
        /\ DispatchDtype \notin SupportedBy(last.op) =>
              /\ last.routines = <<>>
              /\ IF ShapeCheckedFirstFails THEN last.exc = "ValueError"
                 ELSE last.exc = "TypeError"

C3_Witness ==
    /\ last.op = "dot" /\ last.x.dtype = "F" /\ last.y = last.x
    /\ last.x.ndim = 1 /\ last.out.kind = "None" /\ last.env = "ok"
    /\ last.exc = "TypeError" /\ last.routines = <<>>

Outcome(r) == [r EXCEPT !.op = "-"]

\* C5: dot raises TypeError for complex input without a native call; dotu
\* and dotc on a real dtype behave exactly as dot on the same x, y and out
\* (sdot/ddot, same returned object, same validation errors); on a complex
\* dtype dotu uses cdotu/zdotu and dotc uses cdotc/zdotc.
C5_DotFamily ==
    /\ (last.op = "dot" /\ last.x.dtype \in Complex) =>
          (last.exc = "TypeError" /\ last.routines = <<>>)
    /\ (last.op \in {"dotu", "dotc"} /\ last.x.dtype \in Real) =>
          /\ Outcome(last) =
                Outcome(Recorded("dot",
                                 dot(last.x, last.y, last.out,
                                     last.modeBefore, last.env),
                                 last.x, last.y, last.out, last.a, last.env))
          /\ last.routines # <<>> =>
                last.routines =
                    <<IF last.x.dtype = "f" THEN "sdot" ELSE "ddot">>
          /\ (last.x.ndim # 1 \/ last.y.ndim # 1
                  \/ last.x.size # last.y.size) => last.exc = "ValueError"
    /\ (last.op \in {"dotu", "dotc"} /\ last.x.dtype \in Complex
            /\ last.routines # <<>>) =>
          last.routines =
              <<(IF last.x.dtype = "F" THEN "c" ELSE "z") \o last.op>>
    /\ (last.op \in {"dotu", "dotc"} /\ last.x.dtype \in Complex
            /\ OtherwiseValid) => last.routines # <<>>

C5_Witness ==
    /\ last.op = "dotu" /\ last.x.dtype = "d" /\ last.exc = "none"
    /\ last.routines = <<"ddot">> /\ last.ret = "out"

\* batched_gesv gets as far as the limit test.
GesvProceeds ==
    /\ GesvAccepts(last.ga, last.gb)
    /\ promote_with_float32(last.ga.dtype) \in Supported

\* C6: get_batched_gesv_limit returns the value of the most recent
\* set_batched_gesv_limit call (256 if none) and nothing else changes the
\* limit; batched_gesv warns exactly when n = a.shape[-1] exceeds the limit,
\* and the warning changes nothing else about the call.
C6_Limit ==
    /\ limit = (IF lastSet = <<>> THEN 256 ELSE lastSet[1])
    /\ last.op = "get_batched_gesv_limit" => last.value = limit
    /\ last.op = "batched_gesv" =>
          /\ last.warned <=>
                (GesvProceeds
                    /\ last.ga.shape[Len(last.ga.shape)] > last.lim)
          /\ last.lim = limit
          /\ [last EXCEPT !.warned = FALSE, !.lim = 0] =
                [batched_gesv(last.ga, last.gb, MaxDim + 1, last.env)
                    EXCEPT !.op = "batched_gesv", !.lim = 0]
          /\ (GesvProceeds /\ last.env = "ok") =>
                (Len(last.routines) = 2 /\ last.exc = "none")

C6_Witness ==
    /\ last.op = "batched_gesv" /\ last.warned /\ last.exc = "none"
    /\ lastSet = <<SmallLimit>> /\ Len(last.routines) = 2

\* C7 as stated: after any sequence of calls, each returning or raising, the
\* handle's pointer mode is what it was before the sequence.
C7_ModeNeverChanges == ptrMode = mode0

\* The dtype of the result each result-producing operation computes.
ExpectedResultDtype(op, d) ==
    CASE op \in {"iamax", "iamin"} -> "i"
      [] op \in {"asum", "nrm2"} -> (IF d \in {"f", "F"} THEN "f" ELSE "d")
      [] OTHER -> d

\* C8: with out None a result-producing operation returns a fresh device
\* array of the result dtype; with a cupy or numpy out it returns that out,
\* holding the result, also when out's dtype differs (the routine then
\* writes a temporary in out's memory space, copied into out after the mode
\* is restored); any other out raises TypeError without a native call.
C8_ResultAndOut ==
    (last.op \in ResultOps /\ last.x.ndim = 1
        /\ last.x.dtype \in SupportedBy(last.op)
        /\ (last.op \in DotOps => check_two_vectors(last.x, last.y) = "none"))
    =>
        LET rd == ExpectedResultDtype(last.op, last.x.dtype) IN
        /\ last.out.kind = "other" =>
              (last.exc = "TypeError" /\ last.routines = <<>>)
        /\ (last.out.kind = "None" /\ last.exc = "none") =>
              /\ last.ret = "fresh" /\ last.retKind = "cupy"
              /\ last.retDtype = rd
        /\ (last.out.kind \in {"cupy", "numpy"} /\ last.exc = "none") =>
              /\ last.ret = "out" /\ last.outVal = "result"
              /\ last.retKind = last.out.kind
              /\ last.retDtype = last.out.dtype
              /\ last.ptrLoc = (IF last.out.kind = "cupy"
                                THEN "device" ELSE "host")
              /\ last.out.dtype # rd =>
                    /\ last.outCastFrom = rd
                    /\ last.modeAtCopy = last.modeBefore
        /\ (last.out.kind # "other" /\ last.env = "ok") => last.exc = "none"

C8_Witness ==
    /\ last.op = "nrm2" /\ last.x.dtype = "D" /\ last.exc = "none"
    /\ last.out = [kind |-> "numpy", dtype |-> "f"]
    /\ last.ret = "out" /\ last.outVal = "result" /\ last.outCastFrom = "d"
    /\ last.modeBefore = DEVICE /\ last.modeAtCopy = DEVICE

\* The call stopped in validation with no effect at all.
NoEffect ==
    /\ last.routines = <<>>
    /\ ~last.modeRead /\ ~last.modeWritten
    /\ last.modified = {}
    /\ ptrMode = last.modeBefore

\* C9 as stated: a non-1-D x (or y, or unequal sizes) raises ValueError and
\* unequal dtypes raise TypeError, in every such case without any effect.
C9_Original ==
    /\ (last.op \in VecOps \ TwoVectorOps /\ last.x.ndim # 1) =>
          (last.exc = "ValueError" /\ NoEffect)
    /\ (last.op \in TwoVectorOps
            /\ (last.x.ndim # 1 \/ last.y.ndim # 1
                    \/ last.x.size # last.y.size)) =>
          (last.exc = "ValueError" /\ NoEffect)
    /\ (last.op \in TwoVectorOps
            /\ last.x.ndim = 1 /\ last.y.ndim = 1
            /\ last.x.size = last.y.size
            /\ last.x.dtype # last.y.dtype) =>
          (last.exc = "TypeError" /\ NoEffect)

\* C9, amended: as stated, except that dot, dotu and dotc test x's dtype
\* before the shapes: when x's dtype is not one they support (complex or
\* other for dot, other than the four for dotu and dotc) they raise
\* TypeError, not ValueError, also for a non-1-D x or y or unequal sizes.
C9_ValidationFirst ==
    /\ (last.op \in VecOps \ TwoVectorOps /\ last.x.ndim # 1) =>
          (last.exc = "ValueError" /\ NoEffect)
    /\ (last.op \in TwoVectorOps
            /\ (last.x.ndim # 1 \/ last.y.ndim # 1
                    \/ last.x.size # last.y.size)) =>
          /\ NoEffect
          /\ IF last.op \in DotOps /\ last.x.dtype \notin SupportedBy(last.op)
             THEN last.exc = "TypeError"
             ELSE last.exc = "ValueError"
    /\ (last.op \in TwoVectorOps
            /\ last.x.ndim = 1 /\ last.y.ndim = 1
            /\ last.x.size = last.y.size
            /\ last.x.dtype # last.y.dtype) =>
          (last.exc = "TypeError" /\ NoEffect)

C9_Witness ==
    /\ last.op = "dot" /\ last.x.dtype = "F" /\ last.x.ndim = 2
    /\ last.exc = "TypeError" /\ last.routines = <<>> /\ ~last.modeRead

\* C10: getrf and getrs never work in the buffers of the caller's a and b,
\* so neither is written, whether batched_gesv returns or raises.
C10_InputsUntouched ==
    last.op = "batched_gesv" =>
        /\ "a" \notin last.written /\ "b" \notin last.written
        /\ last.routines # <<>> =>
              /\ last.workA \notin {"a", "b", "-"}
              /\ last.workB \notin {"a", "b", "-"}
              /\ last.workA # last.workB
              /\ last.workA \in last.written

C10_Witness ==
    /\ last.op = "batched_gesv" /\ last.exc = "none"
    /\ last.n = 1 /\ last.ga.dtype = "f" /\ last.gb.dtype = "f"
    /\ last.workA = "a_copy" /\ last.workB = "b_copy"
    /\ last.written = {"a_copy", "b_copy"}

====
